---- MODULE Spec2Model ----
(***************************************************************************)
(* Model of the content-selection engine of resublox (src/src/ranker.py,   *)
(* src/src/core.py, src/src/lineGenerator.py): the knapsack solver, the    *)
(* convergence loop of prunePoints, the budget accounting of rank and the  *)
(* selection-to-document filter.                                           *)
(*                                                                         *)
(* Lengths are the program's scaled integers (inches * SCALE_FACTOR,       *)
(* truncated).  Relevance scores are integers; the value of a project      *)
(* point is scaled by projectToExperienceRatio = RatioNum / RatioDen, so   *)
(* every knapsack value is multiplied by RatioDen to stay integral.        *)
(***************************************************************************)
EXTENDS Integers, Sequences, FiniteSets, TLC

(***************************************************************************)
(* Bounds of the model.                                                    *)
(***************************************************************************)
\* precision of the measurements (core.py sets 1000; the model measures coarser)
SCALE_FACTOR == 24
\* a point wraps over 1..MaxLines lines
MaxLines == 2
\* relevance scores of points are 1..MaxScore
MaxScore == 2
\* the knapsack specification: number of items, value and weight ranges
MaxItems == 2
MaxValue == 2
MaxNegative == 1
MaxWeight == 2
MaxCap == 3
\* most height the required lines leave for the points
MaxCapacity == 66
MaxNegativeCapacity == 2
\* most units the fractions of the texts of one joined line add up to
MaxCarry == 1

(***************************************************************************)
(* Configuration, src/src/core.py                                          *)
(***************************************************************************)
PAGE_HEIGHT_INCHES == 11
MARGIN_INCHES == 1
MAX_PAGES == 1
FONT_SIZE_SUBTITLE == 11
FONT_SIZE_REGULAR == 10
SPACING_GAP == 6
SPACING_GAP_SMALL == 3
MIN_POINTS_PER_SECTION == 3
SKILLS_LINE_COUNT == 2
COURSES_LINE_COUNT == 1
unitsPerEm == 2048
fontHeightUnits == 2355
\* LINE_HEIGHT = 1.15, as a fraction
LINE_HEIGHT_NUM == 115
LINE_HEIGHT_DEN == 100
\* projectToExperienceRatio, "85% as valuable as experience"
RatioNum == 17
RatioDen == 20
maxIterations == 10

\* SizeInfo.height = int(((fontHeightUnits * size * LINE_HEIGHT) / unitsPerEm / 72) * SCALE_FACTOR)
SizeHeight(size) ==
    (fontHeightUnits * size * LINE_HEIGHT_NUM * SCALE_FACTOR)
        \div (unitsPerEm * 72 * LINE_HEIGHT_DEN)

\* FontMetrics.getHeight of an empty text: int((size / 72) * SCALE_FACTOR)
BlankHeight(size) == (size * SCALE_FACTOR) \div 72

RegularHeight == SizeHeight(FONT_SIZE_REGULAR)
SubtitleHeight == SizeHeight(FONT_SIZE_SUBTITLE)
GapHeight == BlankHeight(SPACING_GAP)
GapSmallHeight == BlankHeight(SPACING_GAP_SMALL)

\* SpaceInformation
skillReserve == SKILLS_LINE_COUNT * RegularHeight
courseReserve == COURSES_LINE_COUNT * RegularHeight
maxHeight ==
    (PAGE_HEIGHT_INCHES * SCALE_FACTOR - 2 * (MARGIN_INCHES * SCALE_FACTOR)) * MAX_PAGES
minPointsPerSection == MIN_POINTS_PER_SECTION

(***************************************************************************)
(* Sequence helpers                                                        *)
(***************************************************************************)
Max(a, b) == IF a >= b THEN a ELSE b

RECURSIVE SumOver(_, _)
SumOver(S, f) ==
    IF S = {} THEN 0
    ELSE LET x == CHOOSE y \in S : TRUE IN f[x] + SumOver(S \ {x}, f)

\* total of f over the indices selected by sel
SelTotal(sel, f) == SumOver({i \in DOMAIN sel : sel[i]}, f)

AllFalse(n) == [i \in 1..n |-> FALSE]

(***************************************************************************)
(* knapsack, src/src/ranker.py:180                                         *)
(***************************************************************************)
\* row i of the DP table from row i-1; column 0 is never written (range(1, ..))
TableRow(prev, v, wt, cap) ==
    [w \in 0..cap |->
        IF w = 0 THEN 0
        ELSE IF wt <= w THEN Max(v + prev[w - wt], prev[w])
        ELSE prev[w]]

\* rows 0..n of the table, as a sequence indexed 1..n+1
RECURSIVE BuildTable(_, _, _, _)
BuildTable(rows, values, weights, cap) ==
    LET i == Len(rows) IN
    IF i > Len(values) THEN rows
    ELSE BuildTable(Append(rows, TableRow(rows[i], values[i], weights[i], cap)),
                    values, weights, cap)

\* the backward pass: item i is selected iff table[i][w] != table[i-1][w]
RECURSIVE Reconstruct(_, _, _, _, _)
Reconstruct(table, weights, i, w, selected) ==
    IF i = 0 THEN selected
    ELSE IF table[i + 1][w] # table[i][w]
         THEN Reconstruct(table, weights, i - 1, w - weights[i],
                          [selected EXCEPT ![i] = TRUE])
         ELSE Reconstruct(table, weights, i - 1, w, selected)

\* a length test that only catches the missing weights
KnapsackExitsWhenLong(values, weights) == Len(values) > Len(weights)

\* lines 182-184: the length test, print and exit()
KnapsackExits(values, weights) == Len(values) # Len(weights)

\* np.zeros((n + 1, capacity + 1)) raises ValueError for capacity < -1; for
\* capacity = -1 the table has no column and table[n][-1] raises IndexError
KnapsackRaises(values, weights, capacity) ==
    /\ ~KnapsackExits(values, weights)
    /\ \/ capacity < 0 - 1
       \/ capacity = 0 - 1 /\ Len(values) >= 1

knapsack(values, weights, capacity) ==
    LET n == Len(values)
        table == BuildTable(<<[w \in 0..capacity |-> 0]>>, values, weights, capacity)
    IN Reconstruct(table, weights, n, capacity, AllFalse(n))

(***************************************************************************)
(* prunePoints.iterate, src/src/ranker.py:257                              *)
(***************************************************************************)
AllWeightsEqual(weights) == \A i \in DOMAIN weights : weights[i] = weights[1]

\* position of item i in sorted(range(n), key = value, reverse = True):
\* the sort is stable, equal values keep their original order
SortedPosition(values, i) ==
    Cardinality({j \in DOMAIN values :
                    \/ values[j] > values[i]
                    \/ values[j] = values[i] /\ j < i})

\* a fast path that rounds the item count up
GreedyChoiceCeiling(values, weights, capacity) ==
    LET maxItems == (capacity + weights[1] - 1) \div weights[1]
    IN [i \in DOMAIN values |-> SortedPosition(values, i) < maxItems]

GreedyChoice(values, weights, capacity) ==
    LET maxItems == capacity \div weights[1]
    IN [i \in DOMAIN values |-> SortedPosition(values, i) < maxItems]

\* weights[0] raises IndexError on an empty list, and capacity // weights[0]
\* raises ZeroDivisionError when the common weight is 0
IterateRaises(capacity, values, weights) ==
    /\ capacity > 0
    /\ IF DOMAIN weights = {} THEN TRUE
       ELSE AllWeightsEqual(weights) /\ weights[1] = 0

\* iterate hands lists of different lengths to knapsack, which exits
IterateExits(capacity, values, weights) ==
    /\ capacity > 0
    /\ ~AllWeightsEqual(weights)
    /\ KnapsackExits(values, weights)

\* iterate without its first test: sortedTargets[:maxItems] with a negative
\* maxItems keeps all but the last -maxItems targets
iterateUnguarded(capacity, values, weights) ==
    IF DOMAIN weights # {} /\ AllWeightsEqual(weights) /\ weights[1] > 0
    THEN LET maxItems == capacity \div weights[1]
             kept == IF maxItems >= 0 THEN maxItems ELSE Len(values) + maxItems
         IN [i \in DOMAIN values |-> SortedPosition(values, i) < kept]
    ELSE AllFalse(Len(values))

iterate(capacity, values, weights) ==
    IF capacity <= 0 THEN AllFalse(Len(values))
    ELSE IF AllWeightsEqual(weights) THEN GreedyChoice(values, weights, capacity)
    ELSE knapsack(values, weights, capacity)

(***************************************************************************)
(* The document.  A text is modelled by what the program measures of it:   *)
(* a point, a title or a header line by the number of lines it wraps over, *)
(* a keyword, a skill or a course by its width.  content is a record       *)
(*   [required |-> height of the required lines,                           *)
(*    skills   |-> widths,  courses |-> widths,                            *)
(*    jobs     |-> << [role, dates |-> lines, sections |-> << group >>] >>,*)
(*    projects |-> << group >>]                                            *)
(* with group = [title |-> lines, points |-> << lines >>,                  *)
(*               keywords |-> << widths >>, links |-> lines (0: no link)]. *)
(* Indices in keys and metadata are 0-based as in the program.             *)
(***************************************************************************)
VARIABLES
    content,            \* the validated document handed to rank
    similarities,       \* the scores returned by analyze, by item index
    pc,                 \* position of rank
    processedItems,     \* the catalog built by makeBatch
    heightRemaining,    \* rank.heightRemaining
    allWeights,         \* prunePoints: weights, with the blacklist sentinels
    chosen,             \* prunePoints: selection of the last iteration
    accountedJobs, accountedSections, accountedProjects,
    distinctJobs, distinctSections, distinctProjects,
    curCapacity,
    iteration,
    netOverheadChange,
    exitKind,           \* which exit the loop took
    rejectedSections, rejectedProjects,   \* history: groups rejected so far
    expPoints, projPoints, pointsSpace, jobs, sections, projects,
    keywords, keywordsHeight, skills, skillsHeight, courses, coursesHeight,
    filteredContent,
    kValues, kWeights, kCapacity,   \* a call of the solver: its arguments
    kChosen,            \* the selection it returned
    kPc                 \* ready, or how the call ended: knapsack, iterate (returned),
                        \* raised, knapsackRaised, knapsackExited, iterateExited

solverVars == << kValues, kWeights, kCapacity, kChosen, kPc >>

(***************************************************************************)
(* makeBatch, src/src/ranker.py:37                                         *)
(***************************************************************************)
Item(text, index, lineHeight, lineWidth, itemType, metadata) ==
    [text |-> text, index |-> index, lineHeight |-> lineHeight,
     lineWidth |-> lineWidth, itemType |-> itemType, metadata |-> metadata]

\* a string of the document, named by the list it stands in and its place there
Text(kind, a, b, c) == << kind, a, b, c >>

\* height of a text of the given size that wraps over `lines` lines
TextHeight(sizeHeight, lines) == sizeHeight * lines

SkillItems(skillList, rootIdx) ==
    [i \in 1..Len(skillList) |->
        Item(Text("skill", i - 1, 0, 0), rootIdx + i - 1, 0, skillList[i], "SKILL",
             [skillIndex |-> i - 1])]

SectionItems(jIdx, sIdx, s, rootIdx) ==
    [i \in 1..Len(s.points) |->
        Item(Text("point", jIdx, sIdx, i - 1), rootIdx + i - 1,
             TextHeight(RegularHeight, s.points[i]), 0, "POINT",
             [jobIndex |-> jIdx, sectionIndex |-> sIdx, pointIndex |-> i - 1])]
    \o
    [k \in 1..Len(s.keywords) |->
        Item(Text("keyword", jIdx, sIdx, k - 1), rootIdx + Len(s.points) + k - 1,
             0, s.keywords[k], "KEYWORD",
             [jobIndex |-> jIdx, sectionIndex |-> sIdx, keywordIndex |-> k - 1])]

RECURSIVE SectionsItems(_, _, _, _)
SectionsItems(jIdx, secs, sIdx, rootIdx) ==
    IF sIdx >= Len(secs) THEN << >>
    ELSE LET these == SectionItems(jIdx, sIdx, secs[sIdx + 1], rootIdx)
         IN these \o SectionsItems(jIdx, secs, sIdx + 1, rootIdx + Len(these))

RECURSIVE JobsItems(_, _, _)
JobsItems(jobList, jIdx, rootIdx) ==
    IF jIdx >= Len(jobList) THEN << >>
    ELSE LET these == SectionsItems(jIdx, jobList[jIdx + 1].sections, 0, rootIdx)
         IN these \o JobsItems(jobList, jIdx + 1, rootIdx + Len(these))

\* courses numbered from 0 instead of from rootIdx
CourseItemsFromZero(courseList, rootIdx) ==
    [i \in 1..Len(courseList) |->
        Item(Text("course", i - 1, 0, 0), i - 1, 0, courseList[i], "COURSE",
             [courseIndex |-> i - 1])]

CourseItems(courseList, rootIdx) ==
    [i \in 1..Len(courseList) |->
        Item(Text("course", i - 1, 0, 0), rootIdx + i - 1, 0, courseList[i], "COURSE",
             [courseIndex |-> i - 1])]

ProjectItems(pIdx, proj, rootIdx) ==
    [i \in 1..Len(proj.points) |->
        Item(Text("projectPoint", pIdx, i - 1, 0), rootIdx + i - 1,
             TextHeight(RegularHeight, proj.points[i]), 0,
             "PROJECT_POINT", [projectIndex |-> pIdx, pointIndex |-> i - 1])]
    \o
    [k \in 1..Len(proj.keywords) |->
        Item(Text("projectKeyword", pIdx, k - 1, 0), rootIdx + Len(proj.points) + k - 1,
             0, proj.keywords[k], "KEYWORD",
             [projectIndex |-> pIdx, keywordIndex |-> k - 1])]

RECURSIVE ProjectsItems(_, _, _)
ProjectsItems(projList, pIdx, rootIdx) ==
    IF pIdx >= Len(projList) THEN << >>
    ELSE LET these == ProjectItems(pIdx, projList[pIdx + 1], rootIdx)
         IN these \o ProjectsItems(projList, pIdx + 1, rootIdx + Len(these))

\* the item list processedItems; rootIdx is the number of items appended so far
makeBatch(c) ==
    LET sk == SkillItems(c.skills, 0)
        ex == JobsItems(c.jobs, 0, Len(sk))
        co == CourseItems(c.courses, Len(sk) + Len(ex))
        pr == ProjectsItems(c.projects, 0, Len(sk) + Len(ex) + Len(co))
        n  == Len(sk) + Len(ex) + Len(co) + Len(pr)
    IN sk \o ex \o co \o pr
       \o << Item(Text("jobPosting", 0, 0, 0), n, 0, 0, "JOB_POSTING", << >>) >>

\* batchIn, the list of strings makeBatch returns next to the items: every
\* batchIn.append of lines 46-152, in the order of the loops
SectionTexts(jIdx, sIdx, s) ==
    [i \in 1..Len(s.points) |-> Text("point", jIdx, sIdx, i - 1)]
    \o [k \in 1..Len(s.keywords) |-> Text("keyword", jIdx, sIdx, k - 1)]

RECURSIVE SectionsTexts(_, _, _)
SectionsTexts(jIdx, secs, sIdx) ==
    IF sIdx >= Len(secs) THEN << >>
    ELSE SectionTexts(jIdx, sIdx, secs[sIdx + 1]) \o SectionsTexts(jIdx, secs, sIdx + 1)

RECURSIVE JobsTexts(_, _)
JobsTexts(jobList, jIdx) ==
    IF jIdx >= Len(jobList) THEN << >>
    ELSE SectionsTexts(jIdx, jobList[jIdx + 1].sections, 0) \o JobsTexts(jobList, jIdx + 1)

ProjectTexts(pIdx, proj) ==
    [i \in 1..Len(proj.points) |-> Text("projectPoint", pIdx, i - 1, 0)]
    \o [k \in 1..Len(proj.keywords) |-> Text("projectKeyword", pIdx, k - 1, 0)]

RECURSIVE ProjectsTexts(_, _)
ProjectsTexts(projList, pIdx) ==
    IF pIdx >= Len(projList) THEN << >>
    ELSE ProjectTexts(pIdx, projList[pIdx + 1]) \o ProjectsTexts(projList, pIdx + 1)

batchIn(c) ==
    [i \in 1..Len(c.skills) |-> Text("skill", i - 1, 0, 0)]
    \o JobsTexts(c.jobs, 0)
    \o [i \in 1..Len(c.courses) |-> Text("course", i - 1, 0, 0)]
    \o ProjectsTexts(c.projects, 0)
    \o << Text("jobPosting", 0, 0, 0) >>

\* [item for item in items if item.itemType == t], order kept
RECURSIVE ItemsOfType(_, _)
ItemsOfType(items, t) ==
    IF items = << >> THEN << >>
    ELSE IF Head(items).itemType = t
         THEN << Head(items) >> \o ItemsOfType(Tail(items), t)
         ELSE ItemsOfType(Tail(items), t)

(***************************************************************************)
(* Overheads, src/src/ranker.py:210-251 and src/src/lineGenerator.py       *)
(***************************************************************************)
\* generateJobHeader: gap, role line, dates line, small gap
calculateJobOverhead(c, jobIndex) ==
    LET job == c.jobs[jobIndex + 1] IN
      (IF jobIndex > 0 THEN GapHeight ELSE GapSmallHeight)
    + TextHeight(SubtitleHeight, job.role)
    + TextHeight(RegularHeight, job.dates)
    + GapSmallHeight

\* generateSectionHeader: a small gap unless first in its job, and the title
calculateSectionOverhead(c, jobIndex, sectionIndex, isFirstInJob) ==
    LET section == c.jobs[jobIndex + 1].sections[sectionIndex + 1] IN
      (IF ~isFirstInJob THEN GapSmallHeight ELSE 0)
    + TextHeight(SubtitleHeight, section.title)

\* font measurements of FontMetrics.getWidth, in scaled units: the page width
\* less the side margins, and the advance widths (in font units) of ", ",
\* "Technologies Used: " and "Relevant Courses: " in Arial; the font file is
\* not among the sources, the widths are Arial's published metrics
maxWidth == (17 * SCALE_FACTOR) \div 2 - 2 * (MARGIN_INCHES * SCALE_FACTOR)
separatorWeight == (1138 * FONT_SIZE_REGULAR * SCALE_FACTOR) \div (unitsPerEm * 72)
keywordsHeaderWidth == (18670 * FONT_SIZE_REGULAR * SCALE_FACTOR) \div (unitsPerEm * 72)
coursesHeaderWidth == (17416 * FONT_SIZE_REGULAR * SCALE_FACTOR) \div (unitsPerEm * 72)

\* width of the texts joined by ", " after a header label
RECURSIVE SeqSum(_)
SeqSum(q) == IF q = << >> THEN 0 ELSE Head(q) + SeqSum(Tail(q))

JoinedWidth(header, widths) ==
    header + SeqSum(widths)
    + (IF Len(widths) > 0 THEN (Len(widths) - 1) * separatorWeight ELSE 0)

\* FontMetrics.getWidth of the joined line: getWidth truncates once per call
\* (core.py:126), so the line of k texts is up to k - 1 units wider than the
\* sum of the widths measured text by text; `carry` is what the fractions of
\* the texts add up to
JoinedLineWidth(header, widths, carry) ==
    JoinedWidth(header, widths)
    + (IF Len(widths) = 0 THEN 0
       ELSE IF carry < Len(widths) THEN carry ELSE Len(widths) - 1)

\* FontMetrics.getHeight of a non-empty text: ceil(width / maxWidth) lines
WrappedHeight(width, sizeHeight) == sizeHeight * ((width + maxWidth - 1) \div maxWidth)

estimateKeywordsHeight(c, jobIdx, sectionIdx) ==
    LET section == c.jobs[jobIdx + 1].sections[sectionIdx + 1] IN
    IF section.keywords = << >> THEN 0
    ELSE WrappedHeight(JoinedWidth(keywordsHeaderWidth, section.keywords), RegularHeight)

estimateLinksHeight(c, jobIdx, sectionIdx) ==
    LET section == c.jobs[jobIdx + 1].sections[sectionIdx + 1] IN
    IF section.links = 0 THEN 0 ELSE TextHeight(RegularHeight, section.links)

\* generateProjectHeader: a small gap unless it is project 0, and the title
calculateProjectOverhead(c, projectIndex) ==
    LET project == c.projects[projectIndex + 1] IN
      (IF projectIndex > 0 THEN GapSmallHeight ELSE 0)
    + TextHeight(SubtitleHeight, project.title)

estimateProjectKeywordsHeight(c, projectIdx) ==
    LET project == c.projects[projectIdx + 1] IN
    IF project.keywords = << >> THEN 0
    ELSE WrappedHeight(JoinedWidth(keywordsHeaderWidth, project.keywords), RegularHeight)

estimateProjectLinksHeight(c, projectIdx) ==
    LET project == c.projects[projectIdx + 1] IN
    IF project.links = 0 THEN 0 ELSE TextHeight(RegularHeight, project.links)

(***************************************************************************)
(* prunePoints, src/src/ranker.py:253                                      *)
(***************************************************************************)
\* a sentinel that fits the page
BlacklistWithinPage == maxHeight \div 8

BLACKLIST_WEIGHT == maxHeight + 1

\* allPoints = expPoints + projPoints
PointItems(items) == ItemsOfType(items, "POINT") \o ItemsOfType(items, "PROJECT_POINT")

\* allValues: the score of an experience point, the score of a project point
\* times projectToExperienceRatio (both multiplied by RatioDen).  core.py as
\* given defines neither the ratio nor ItemType.PROJECT_POINT; the ratio is the
\* 85% of the comment at ranker.py:286
\* values without the project weighting
PointValuesUnscaled(items, sims) ==
    LET pts == PointItems(items) IN
    [i \in 1..Len(pts) |-> sims[pts[i].index] * RatioDen]

PointValues(items, sims) ==
    LET pts == PointItems(items) IN
    [i \in 1..Len(pts) |->
        IF pts[i].itemType = "POINT" THEN sims[pts[i].index] * RatioDen
        ELSE sims[pts[i].index] * RatioNum]

PointWeights(items) ==
    LET pts == PointItems(items) IN [i \in 1..Len(pts) |-> pts[i].lineHeight]

SectionKey(item) == << item.metadata.jobIndex, item.metadata.sectionIndex >>

\* sectionPointIndices: the picked experience points, by section
SectionPointIndices(pts, picked) ==
    LET keys == {SectionKey(pts[i]) :
                    i \in {k \in DOMAIN pts : picked[k] /\ pts[k].itemType = "POINT"}}
    IN [key \in keys |->
            {i \in DOMAIN pts :
                picked[i] /\ pts[i].itemType = "POINT" /\ SectionKey(pts[i]) = key}]

\* projectPointIndices: the picked project points, by project
ProjectPointIndices(pts, picked) ==
    LET keys == {pts[i].metadata.projectIndex :
                    i \in {k \in DOMAIN pts : picked[k] /\ pts[k].itemType = "PROJECT_POINT"}}
    IN [key \in keys |->
            {i \in DOMAIN pts :
                /\ picked[i]
                /\ pts[i].itemType = "PROJECT_POINT"
                /\ pts[i].metadata.projectIndex = key}]

\* a rejection test that lets a group through one point short
TooFewOffByOne(indices) ==
    {key \in DOMAIN indices : Cardinality(indices[key]) < minPointsPerSection - 1}

\* groups with too few points
TooFew(indices) == {key \in DOMAIN indices : Cardinality(indices[key]) < minPointsPerSection}

\* the points whose selection is cancelled and whose weight becomes the sentinel
Blacklisted(indices, toRemove) == UNION {indices[key] : key \in toRemove}

MinOf(S) == CHOOSE x \in S : \A y \in S : x <= y

\* overhead of the sections in `which`, first-in-job decided inside `within`
SectionsOverhead(c, which, within) ==
    LET cost == [key \in which |->
                    LET jobSections == {k[2] : k \in {q \in within : q[1] = key[1]}}
                        isFirstInJob == IF jobSections = {} THEN FALSE
                                        ELSE key[2] = MinOf(jobSections)
                    IN calculateSectionOverhead(c, key[1], key[2], isFirstInJob)
                     + estimateKeywordsHeight(c, key[1], key[2])
                     + estimateLinksHeight(c, key[1], key[2])]
    IN SumOver(which, cost)

JobsOverhead(c, which) ==
    SumOver(which, [j \in which |-> calculateJobOverhead(c, j)])

ProjectsOverhead(c, which) ==
    SumOver(which, [p \in which |->
                      calculateProjectOverhead(c, p)
                    + estimateProjectKeywordsHeight(c, p)
                    + estimateProjectLinksHeight(c, p)])

\* newOverhead: first-in-job is decided among the sections now active
NewOverhead(c, dJobs, dSections, dProjects, aJobs, aSections, aProjects) ==
      JobsOverhead(c, dJobs \ aJobs)
    + SectionsOverhead(c, dSections \ aSections, dSections)
    + ProjectsOverhead(c, dProjects \ aProjects)

\* removedOverhead: first-in-job is decided among the accounted sections
RemovedOverhead(c, dJobs, dSections, dProjects, aJobs, aSections, aProjects) ==
      JobsOverhead(c, aJobs \ dJobs)
    + SectionsOverhead(c, aSections \ dSections, aSections)
    + ProjectsOverhead(c, aProjects \ dProjects)

\* the loop condition off by one: one iteration too many
WhileConditionInclusive(it) == it <= maxIterations

\* while iteration < maxIterations
WhileCondition(it) == it < maxIterations

\* if abs(netOverheadChange) <= 1: break
WithinTolerance(net) == (IF net < 0 THEN -net ELSE net) <= 1

\* the weights after the points of the rejected groups got the sentinel
WeightsAfterRejection(weights, black) ==
    [i \in DOMAIN weights |-> IF i \in black THEN BLACKLIST_WEIGHT ELSE weights[i]]

\* the body of the while loop up to netOverheadChange (lines 301-397), from
\* the capacity, the weights and the accounted sets the iteration starts with
Iteration(c, items, sims, capacity, weights, aJobs, aSections, aProjects) ==
    LET pts == PointItems(items)
        picked == iterate(capacity, PointValues(items, sims), weights)
        sectionPointIndices == SectionPointIndices(pts, picked)
        projectPointIndices == ProjectPointIndices(pts, picked)
        sectionsToRemove == TooFew(sectionPointIndices)
        projectsToRemove == TooFew(projectPointIndices)
        black == Blacklisted(sectionPointIndices, sectionsToRemove)
                 \cup Blacklisted(projectPointIndices, projectsToRemove)
        dSections == DOMAIN sectionPointIndices \ sectionsToRemove
        dJobs == {key[1] : key \in dSections}
        dProjects == DOMAIN projectPointIndices \ projectsToRemove
    IN [chosen |-> [i \in DOMAIN picked |-> picked[i] /\ i \notin black],
        weights |-> WeightsAfterRejection(weights, black),
        sectionsToRemove |-> sectionsToRemove,
        projectsToRemove |-> projectsToRemove,
        distinctJobs |-> dJobs,
        distinctSections |-> dSections,
        distinctProjects |-> dProjects,
        netOverheadChange |->
              NewOverhead(c, dJobs, dSections, dProjects, aJobs, aSections, aProjects)
            - RemovedOverhead(c, dJobs, dSections, dProjects, aJobs, aSections, aProjects)]

\* one iteration of the while loop (lines 299-415)
PruneIterate ==
    /\ pc = "prunePoints"
    /\ WhileCondition(iteration)
    /\ LET it == Iteration(content, processedItems, similarities, curCapacity,
                           allWeights, accountedJobs, accountedSections, accountedProjects)
           net == it.netOverheadChange
           cap == curCapacity - net
       IN /\ iteration' = iteration + 1
          /\ allWeights' = it.weights
          /\ rejectedSections' = rejectedSections \cup it.sectionsToRemove
          /\ rejectedProjects' = rejectedProjects \cup it.projectsToRemove
          /\ netOverheadChange' = net
          /\ IF net = 0
             THEN /\ chosen' = it.chosen
                  /\ distinctJobs' = it.distinctJobs
                  /\ distinctSections' = it.distinctSections
                  /\ distinctProjects' = it.distinctProjects
                  /\ UNCHANGED << accountedJobs, accountedSections, accountedProjects >>
                  /\ curCapacity' = curCapacity
                  /\ exitKind' = "zero"
                  /\ pc' = "pruneReturn"
             ELSE IF net > 0 /\ cap <= 0
             THEN /\ chosen' = AllFalse(Len(allWeights))
                  /\ distinctJobs' = {}
                  /\ distinctSections' = {}
                  /\ distinctProjects' = {}
                  /\ UNCHANGED << accountedJobs, accountedSections, accountedProjects >>
                  /\ curCapacity' = cap
                  /\ exitKind' = "collapse"
                  /\ pc' = "pruneReturn"
             ELSE /\ chosen' = it.chosen
                  /\ distinctJobs' = it.distinctJobs
                  /\ distinctSections' = it.distinctSections
                  /\ distinctProjects' = it.distinctProjects
                  /\ accountedJobs' = it.distinctJobs
                  /\ accountedSections' = it.distinctSections
                  /\ accountedProjects' = it.distinctProjects
                  /\ curCapacity' = cap
                  /\ IF WithinTolerance(net)
                     THEN exitKind' = "tolerance" /\ pc' = "pruneReturn"
                     ELSE IF ~WhileCondition(iteration + 1)
                     THEN exitKind' = "cap" /\ pc' = "pruneReturn"
                     ELSE exitKind' = exitKind /\ pc' = "prunePoints"
    /\ UNCHANGED << content, similarities, processedItems, heightRemaining,
                    expPoints, projPoints, pointsSpace, jobs, sections, projects,
                    keywords, keywordsHeight, skills, skillsHeight,
                    courses, coursesHeight, filteredContent >>
    /\ UNCHANGED solverVars

\* keepersOverheadHeight (lines 428-439): headers of the accounted groups
KeepersOverheadHeight(c, aJobs, aSections, aProjects) ==
      JobsOverhead(c, aJobs)
    + SumOver(aSections,
        [key \in aSections |->
            LET jobSections == {k[2] : k \in {q \in aSections : q[1] = key[1]}}
            IN calculateSectionOverhead(c, key[1], key[2], key[2] = MinOf(jobSections))])
    + SumOver(aProjects, [p \in aProjects |-> calculateProjectOverhead(c, p)])

\* the picked items of one type, in catalog order
RECURSIVE Keepers(_, _, _, _)
Keepers(pts, picked, t, i) ==
    IF i > Len(pts) THEN << >>
    ELSE (IF picked[i] /\ pts[i].itemType = t THEN << pts[i] >> ELSE << >>)
         \o Keepers(pts, picked, t, i + 1)

KeepersHeight(keepers) == SeqSum([i \in 1..Len(keepers) |-> keepers[i].lineHeight])

\* lines 417-443 and the return into rank (lines 725-726)
PruneReturn ==
    /\ pc = "pruneReturn"
    /\ LET pts == PointItems(processedItems)
           expKeepers == Keepers(pts, chosen, "POINT", 1)
           projKeepers == Keepers(pts, chosen, "PROJECT_POINT", 1)
           usedSpace == KeepersHeight(expKeepers) + KeepersHeight(projKeepers)
                      + KeepersOverheadHeight(content, accountedJobs,
                                              accountedSections, accountedProjects)
       IN /\ expPoints' = expKeepers
          /\ projPoints' = projKeepers
          /\ pointsSpace' = usedSpace
          /\ jobs' = accountedJobs
          /\ sections' = accountedSections
          /\ projects' = accountedProjects
          /\ heightRemaining' = heightRemaining - usedSpace
    /\ pc' = "pruneKeywords"
    /\ UNCHANGED << content, similarities, processedItems, allWeights, chosen,
                    accountedJobs, accountedSections, accountedProjects,
                    distinctJobs, distinctSections, distinctProjects,
                    curCapacity, iteration, netOverheadChange, exitKind,
                    rejectedSections, rejectedProjects,
                    keywords, keywordsHeight, skills, skillsHeight,
                    courses, coursesHeight, filteredContent >>
    /\ UNCHANGED solverVars

(***************************************************************************)
(* pruneKeywords, pruneSkills, pruneCourses, src/src/ranker.py:445-590     *)
(***************************************************************************)
KEYWORD_LINES_PER_SECTION == 1

\* the items of `items` picked by `picked`, as a set
Picked(items, picked) == {items[i] : i \in {k \in DOMAIN items : picked[k]}}

PickedWidths(items, picked) ==
    LET RECURSIVE W(_)
        W(i) == IF i > Len(items) THEN << >>
                ELSE (IF picked[i] THEN << items[i].lineWidth >> ELSE << >>) \o W(i + 1)
    IN W(1)

\* a pass whose capacity leaves out the header label
WidthPassWithoutHeader(candidates, sims, lineCount, headerWidth, carry) ==
    LET n == Len(candidates)
        values == [i \in 1..n |-> sims[candidates[i].index]]
        weights == [i \in 1..n |-> candidates[i].lineWidth]
        capacity == maxWidth * lineCount - (n - 1) * separatorWeight
    IN IF n = 0 \/ capacity <= 0 THEN [keepers |-> {}, height |-> 0]
       ELSE LET picked == knapsack(values, weights, capacity)
                widths == PickedWidths(candidates, picked)
            IN [keepers |-> Picked(candidates, picked),
                height |-> IF widths = << >> THEN 0
                           ELSE WrappedHeight(JoinedLineWidth(headerWidth, widths, carry),
                                              RegularHeight)]

\* a pass that renders the header line of a group without candidates
WidthPassBlankLine(candidates, sims, lineCount, headerWidth, carry) ==
    LET n == Len(candidates)
        values == [i \in 1..n |-> sims[candidates[i].index]]
        weights == [i \in 1..n |-> candidates[i].lineWidth]
        capacity == maxWidth * lineCount - headerWidth - (n - 1) * separatorWeight
    IN IF n = 0 THEN [keepers |-> {}, height |-> RegularHeight]
       ELSE IF capacity <= 0 THEN [keepers |-> {}, height |-> 0]
       ELSE LET picked == knapsack(values, weights, capacity)
                widths == PickedWidths(candidates, picked)
            IN [keepers |-> Picked(candidates, picked),
                height |-> IF widths = << >> THEN 0
                           ELSE WrappedHeight(JoinedLineWidth(headerWidth, widths, carry),
                                              RegularHeight)]

\* one bounded-width pass over the candidates of a group: the kept items and
\* the height of the line they are joined into
WidthPass(candidates, sims, lineCount, headerWidth, carry) ==
    LET n == Len(candidates)
        values == [i \in 1..n |-> sims[candidates[i].index]]
        weights == [i \in 1..n |-> candidates[i].lineWidth]
        capacity == maxWidth * lineCount - headerWidth - (n - 1) * separatorWeight
    IN IF n = 0 \/ capacity <= 0 THEN [keepers |-> {}, height |-> 0]
       ELSE LET picked == knapsack(values, weights, capacity)
                widths == PickedWidths(candidates, picked)
            IN [keepers |-> Picked(candidates, picked),
                height |-> IF widths = << >> THEN 0
                           ELSE WrappedHeight(JoinedLineWidth(headerWidth, widths, carry),
                                              RegularHeight)]

\* [x for x in items if keep[x]], keep given by position
RECURSIVE SelectItems(_, _, _)
SelectItems(items, keep, i) ==
    IF i > Len(items) THEN << >>
    ELSE (IF keep[i] THEN << items[i] >> ELSE << >>) \o SelectItems(items, keep, i + 1)

\* the keywords of the section of that index in any job
SectionKeywordsOfAnyJob(items, jobIdx, sectionIdx) ==
    SelectItems(items,
        [i \in DOMAIN items |->
            /\ items[i].itemType = "KEYWORD"
            /\ "jobIndex" \in DOMAIN items[i].metadata
            /\ items[i].metadata.sectionIndex = sectionIdx], 1)

SectionKeywords(items, jobIdx, sectionIdx) ==
    SelectItems(items,
        [i \in DOMAIN items |->
            /\ items[i].itemType = "KEYWORD"
            /\ "jobIndex" \in DOMAIN items[i].metadata
            /\ items[i].metadata.jobIndex = jobIdx
            /\ items[i].metadata.sectionIndex = sectionIdx], 1)

ProjectKeywords(items, projectIdx) ==
    SelectItems(items,
        [i \in DOMAIN items |->
            /\ items[i].itemType = "KEYWORD"
            /\ "projectIndex" \in DOMAIN items[i].metadata
            /\ items[i].metadata.projectIndex = projectIdx], 1)

\* the kept keywords form a set: their order in the returned list is the
\* iteration order of the active sets, and no later stage depends on it; the
\* keyword texts of the inputs have whole widths (carry 0)
pruneKeywords(c, items, sims, activeSections, activeProjects) ==
    LET bySection == [key \in activeSections |->
                        WidthPass(SectionKeywords(items, key[1], key[2]), sims,
                                  KEYWORD_LINES_PER_SECTION, keywordsHeaderWidth, 0)]
        byProject == [p \in activeProjects |->
                        WidthPass(ProjectKeywords(items, p), sims,
                                  KEYWORD_LINES_PER_SECTION, keywordsHeaderWidth, 0)]
    IN [keepers |-> UNION {bySection[key].keepers : key \in activeSections}
                    \cup UNION {byProject[p].keepers : p \in activeProjects},
        height |-> SumOver(activeSections, [key \in activeSections |-> bySection[key].height])
                 + SumOver(activeProjects, [p \in activeProjects |-> byProject[p].height])]

pruneSkills(items, sims, carry) ==
    WidthPass(ItemsOfType(items, "SKILL"), sims, SKILLS_LINE_COUNT, 0, carry)

pruneCourses(items, sims, carry) ==
    WidthPass(ItemsOfType(items, "COURSE"), sims, COURSES_LINE_COUNT, coursesHeaderWidth,
              carry)

(***************************************************************************)
(* filter, src/src/ranker.py:592                                           *)
(***************************************************************************)
\* the elements of a set of integers in decreasing order
RECURSIVE SortedDescending(_)
SortedDescending(S) ==
    IF S = {} THEN << >>
    ELSE LET m == CHOOSE x \in S : \A y \in S : y <= x
         IN << m >> \o SortedDescending(S \ {m})

\* sorted(S) for a set of integers
RECURSIVE Sorted(_)
Sorted(S) == IF S = {} THEN << >> ELSE << MinOf(S) >> \o Sorted(S \ {MinOf(S)})

\* the elements of a sequence of items, as a set
Range(q) == {q[i] : i \in DOMAIN q}

\* [original[i] for i in indices]
Pick(original, indices) == [k \in 1..Len(indices) |-> original[indices[k] + 1]]

FilteredSection(c, oldJobIdx, oldSectionIdx, expKeep, kwKeep) ==
    LET originalSection == c.jobs[oldJobIdx + 1].sections[oldSectionIdx + 1]
        pointIndices ==
            Sorted({p.metadata.pointIndex :
                      p \in {q \in expKeep : /\ q.metadata.jobIndex = oldJobIdx
                                             /\ q.metadata.sectionIndex = oldSectionIdx}})
        keywordIndices ==
            Sorted({k.metadata.keywordIndex :
                      k \in {q \in kwKeep : /\ "jobIndex" \in DOMAIN q.metadata
                                            /\ q.metadata.jobIndex = oldJobIdx
                                            /\ q.metadata.sectionIndex = oldSectionIdx}})
    IN [from |-> << oldJobIdx, oldSectionIdx >>,
        pointsFrom |-> pointIndices,
        keywordsFrom |-> keywordIndices,
        title |-> originalSection.title,
        points |-> Pick(originalSection.points, pointIndices),
        keywords |-> Pick(originalSection.keywords, keywordIndices),
        links |-> originalSection.links]

FilteredJob(c, oldJobIdx, activeSections, expKeep, kwKeep) ==
    LET originalJob == c.jobs[oldJobIdx + 1]
        jobSections == Sorted({key[2] : key \in {q \in activeSections : q[1] = oldJobIdx}})
    IN [from |-> oldJobIdx,
        role |-> originalJob.role,
        dates |-> originalJob.dates,
        sections |-> [k \in 1..Len(jobSections) |->
                        FilteredSection(c, oldJobIdx, jobSections[k], expKeep, kwKeep)]]

FilteredProject(c, oldProjectIdx, projKeep, kwKeep) ==
    LET originalProject == c.projects[oldProjectIdx + 1]
        pointIndices ==
            Sorted({p.metadata.pointIndex :
                      p \in {q \in projKeep : q.metadata.projectIndex = oldProjectIdx}})
        keywordIndices ==
            Sorted({k.metadata.keywordIndex :
                      k \in {q \in kwKeep : /\ "projectIndex" \in DOMAIN q.metadata
                                            /\ q.metadata.projectIndex = oldProjectIdx}})
    IN [from |-> oldProjectIdx,
        pointsFrom |-> pointIndices,
        keywordsFrom |-> keywordIndices,
        title |-> originalProject.title,
        keywords |-> Pick(originalProject.keywords, keywordIndices),
        points |-> Pick(originalProject.points, pointIndices),
        links |-> originalProject.links]

\* the trimmed document; every emitted job, section and project carries in
\* `from` the index it had in the original, and every emitted list of skills,
\* courses, points and keywords carries in `...From` the original positions of
\* its elements (these are not fields of the program's dict).  The selections
\* arrive as sets: the program reads its argument lists only through
\* comprehensions that end in sorted(), so their order cannot reach the output.
filter(c, skillKeep, courseKeep, expKeep, projKeep, kwKeep, activeJobs, activeSections, activeProjects) ==
    LET skillIndices == Sorted({k.metadata.skillIndex : k \in skillKeep})
        courseIndices == Sorted({k.metadata.courseIndex : k \in courseKeep})
        sortedJobIndices == Sorted(activeJobs)
        sortedProjectIndices == Sorted(activeProjects)
    IN [skillsFrom |-> skillIndices,
        coursesFrom |-> courseIndices,
        skills |-> Pick(c.skills, skillIndices),
        courses |-> Pick(c.courses, courseIndices),
        jobs |-> [k \in 1..Len(sortedJobIndices) |->
                    FilteredJob(c, sortedJobIndices[k], activeSections, expKeep, kwKeep)],
        projects |-> [k \in 1..Len(sortedProjectIndices) |->
                        FilteredProject(c, sortedProjectIndices[k], projKeep, kwKeep)]]

\* The dicts filter shares with its caller.  content['skills'],
\* content['experience'] and content['education'] are objects the caller
\* holds; the heap maps an object to its keys.
Heap(c) ==
    [obj \in {"skills", "experience", "education"} |->
        CASE obj = "skills" -> [list |-> c.skills]
          [] obj = "experience" -> [jobs |-> c.jobs]
          [] obj = "education" -> [courses |-> c.courses]]

\* a reference to the object itself in place of a copy
CopyShares(heap, src, dst) == [heap |-> heap, ref |-> src]

\* dict.copy(): a new object with the keys of the old one (lines 603-605)
Copy(heap, src, dst) == [heap |-> heap @@ (dst :> heap[src]), ref |-> dst]

\* obj[key] = value
Store(heap, ref, key, value) ==
    [obj \in DOMAIN heap |->
        IF obj = ref THEN [k \in DOMAIN heap[obj] |->
                              IF k = key THEN value ELSE heap[obj][k]]
        ELSE heap[obj]]

\* the heap after filter has built `result`: the three copies (lines 601-606)
\* and the three assignments through them (lines 610, 616, 622)
filterHeap(c, result) ==
    LET s == Copy(Heap(c), "skills", "skillsCopy")
        e == Copy(s.heap, "experience", "experienceCopy")
        d == Copy(e.heap, "education", "educationCopy")
        h1 == Store(d.heap, s.ref, "list", result.skills)
        h2 == Store(h1, d.ref, "courses", result.courses)
    IN Store(h2, e.ref, "jobs", result.jobs)

\* the caller's document read back through the caller's references
ContentIn(heap, c) ==
    [c EXCEPT !.skills = heap["skills"].list,
              !.jobs = heap["experience"].jobs,
              !.courses = heap["education"].courses]

(***************************************************************************)
(* rank, src/src/ranker.py:711                                             *)
(***************************************************************************)
\* getRequiredLineWeights: what the required lines leave of the page
getRequiredLineWeights(c) == Max(maxHeight - c.required, 0)

mainVars ==
    << content, similarities, pc, processedItems, heightRemaining,
       allWeights, chosen, accountedJobs, accountedSections, accountedProjects,
       distinctJobs, distinctSections, distinctProjects, curCapacity, iteration,
       netOverheadChange, exitKind, rejectedSections, rejectedProjects,
       expPoints, projPoints, pointsSpace, jobs, sections, projects,
       keywords, keywordsHeight, skills, skillsHeight, courses, coursesHeight,
       filteredContent >>

\* rank with the catalog built ahead of the test of heightRemaining
RankStartBuildsFirst ==
    /\ pc = "rank"
    /\ processedItems' = makeBatch(content)
    /\ LET remaining == getRequiredLineWeights(content) - skillReserve - courseReserve
       IN /\ heightRemaining' = remaining
          /\ IF remaining <= 0
             THEN /\ pc' = "aborted"
                  /\ UNCHANGED << allWeights, chosen, curCapacity >>
             ELSE /\ pc' = "prunePoints"
                  /\ allWeights' = PointWeights(makeBatch(content))
                  /\ chosen' = << >>
                  /\ curCapacity' = remaining
    /\ UNCHANGED << content, similarities,
                    accountedJobs, accountedSections, accountedProjects,
                    distinctJobs, distinctSections, distinctProjects, iteration,
                    netOverheadChange, exitKind, rejectedSections, rejectedProjects,
                    expPoints, projPoints, pointsSpace, jobs, sections, projects,
                    keywords, keywordsHeight, skills, skillsHeight,
                    courses, coursesHeight, filteredContent >>
    /\ UNCHANGED solverVars

\* lines 713-725: the reserves are taken off, the run aborts when nothing is
\* left, the catalog is built and prunePoints starts with capacity = heightRemaining
RankStart ==
    /\ pc = "rank"
    /\ LET remaining == getRequiredLineWeights(content) - skillReserve - courseReserve
       IN /\ heightRemaining' = remaining
          /\ IF remaining <= 0
             THEN /\ pc' = "aborted"
                  /\ UNCHANGED << processedItems, allWeights, chosen, curCapacity >>
             ELSE /\ pc' = "prunePoints"
                  /\ processedItems' = makeBatch(content)
                  /\ allWeights' = PointWeights(makeBatch(content))
                  /\ chosen' = << >>
                  /\ curCapacity' = remaining
    /\ UNCHANGED << content, similarities,
                    accountedJobs, accountedSections, accountedProjects,
                    distinctJobs, distinctSections, distinctProjects, iteration,
                    netOverheadChange, exitKind, rejectedSections, rejectedProjects,
                    expPoints, projPoints, pointsSpace, jobs, sections, projects,
                    keywords, keywordsHeight, skills, skillsHeight,
                    courses, coursesHeight, filteredContent >>
    /\ UNCHANGED solverVars

\* lines 728-734: the keywords of the active groups, then the refund of the reserves
PruneKeywords ==
    /\ pc = "pruneKeywords"
    /\ LET r == pruneKeywords(content, processedItems, similarities, sections, projects)
       IN /\ keywords' = r.keepers
          /\ keywordsHeight' = r.height
          /\ heightRemaining' = heightRemaining - r.height + skillReserve + courseReserve
    /\ pc' = "pruneSkills"
    /\ UNCHANGED << content, similarities, processedItems, allWeights, chosen,
                    accountedJobs, accountedSections, accountedProjects,
                    distinctJobs, distinctSections, distinctProjects,
                    curCapacity, iteration, netOverheadChange, exitKind,
                    rejectedSections, rejectedProjects,
                    expPoints, projPoints, pointsSpace, jobs, sections, projects,
                    skills, skillsHeight, courses, coursesHeight, filteredContent >>
    /\ UNCHANGED solverVars

\* lines 736-738
PruneSkills ==
    /\ pc = "pruneSkills"
    /\ \E carry \in 0..MaxCarry :
         LET r == pruneSkills(processedItems, similarities, carry)
         IN /\ skills' = r.keepers
            /\ skillsHeight' = r.height
            /\ heightRemaining' = heightRemaining - r.height
    /\ pc' = "pruneCourses"
    /\ UNCHANGED << content, similarities, processedItems, allWeights, chosen,
                    accountedJobs, accountedSections, accountedProjects,
                    distinctJobs, distinctSections, distinctProjects,
                    curCapacity, iteration, netOverheadChange, exitKind,
                    rejectedSections, rejectedProjects,
                    expPoints, projPoints, pointsSpace, jobs, sections, projects,
                    keywords, keywordsHeight, courses, coursesHeight, filteredContent >>
    /\ UNCHANGED solverVars

\* lines 740-741
PruneCourses ==
    /\ pc = "pruneCourses"
    /\ \E carry \in 0..MaxCarry :
         LET r == pruneCourses(processedItems, similarities, carry)
         IN /\ courses' = r.keepers
            /\ coursesHeight' = r.height
            /\ heightRemaining' = heightRemaining - r.height
    /\ pc' = "filter"
    /\ UNCHANGED << content, similarities, processedItems, allWeights, chosen,
                    accountedJobs, accountedSections, accountedProjects,
                    distinctJobs, distinctSections, distinctProjects,
                    curCapacity, iteration, netOverheadChange, exitKind,
                    rejectedSections, rejectedProjects,
                    expPoints, projPoints, pointsSpace, jobs, sections, projects,
                    keywords, keywordsHeight, skills, skillsHeight, filteredContent >>
    /\ UNCHANGED solverVars

\* line 743
Filter ==
    /\ pc = "filter"
    /\ filteredContent' = filter(content, skills, courses, Range(expPoints),
                                 Range(projPoints), keywords, jobs, sections, projects)
    /\ content' = ContentIn(filterHeap(content, filteredContent'), content)
    /\ pc' = "done"
    /\ UNCHANGED << similarities, processedItems, heightRemaining,
                    allWeights, chosen,
                    accountedJobs, accountedSections, accountedProjects,
                    distinctJobs, distinctSections, distinctProjects,
                    curCapacity, iteration, netOverheadChange, exitKind,
                    rejectedSections, rejectedProjects,
                    expPoints, projPoints, pointsSpace, jobs, sections, projects,
                    keywords, keywordsHeight, skills, skillsHeight,
                    courses, coursesHeight >>
    /\ UNCHANGED solverVars

(***************************************************************************)
(* Inputs: validated documents (every group has at least one point and one *)
(* keyword, src/src/validator.py) and the scores analyze returns for them. *)
(***************************************************************************)
Group(title, points, kws, links) ==
    [title |-> title, points |-> points, keywords |-> kws, links |-> links]

Job(role, dates, secs) == [role |-> role, dates |-> dates, sections |-> secs]

Document(jobList, projList) ==
    [required |-> 0, skills |-> << 100, 120, 150 >>, courses |-> << 60, 80 >>,
     jobs |-> jobList, projects |-> projList]

\* keywords that the estimate puts on one line, and on two
OneLine == << 40, 50 >>
TwoLines == << 70, 70 >>

\* two jobs of one section each
DocTwoJobs ==
    Document(<< Job(1, 1, << Group(1, << 2, 2, 2 >>, OneLine, 0) >>),
                Job(1, 1, << Group(1, << 1, 1, 1 >>, OneLine, 0) >>) >>, << >>)

\* two jobs of one section each with one-line points, and two short courses
DocTwoShortJobs ==
    [Document(<< Job(1, 1, << Group(1, << 1, 1, 1 >>, OneLine, 0) >>),
                 Job(1, 1, << Group(1, << 1, 1, 1 >>, OneLine, 0) >>) >>, << >>)
        EXCEPT !.courses = << 50, 60 >>]

\* two skills that fill the skill lines to the last unit, and two courses that
\* fill the course line after its label
DocFullLines ==
    [Document(<< Job(1, 1, << Group(1, << 1, 1, 1 >>, OneLine, 0) >>) >>, << >>)
        EXCEPT !.skills = << maxWidth - separatorWeight, maxWidth >>,
               !.courses = << (maxWidth - coursesHeaderWidth - separatorWeight) \div 2,
                              (maxWidth - coursesHeaderWidth - separatorWeight + 1) \div 2 >>]

\* no skill, no course, one section without keywords (makeBatch and the
\* estimates accept the empty lists, ranker.py:43, 99, 221)
DocBare ==
    [Document(<< Job(1, 1, << Group(1, << 1, 1, 1 >>, << >>, 0) >>) >>, << >>)
        EXCEPT !.skills = << >>, !.courses = << >>]

\* a section with keywords and a project without
DocProjectWithoutKeywords ==
    Document(<< Job(1, 1, << Group(1, << 1, 1, 1 >>, OneLine, 0) >>) >>,
             << Group(1, << 1, 1, 1 >>, << >>, 0) >>)

\* one job of two sections, both with a link line
DocTwoSections ==
    Document(<< Job(1, 1, << Group(1, << 2, 2, 2 >>, OneLine, 1),
                             Group(1, << 2, 1, 3 >>, OneLine, 1) >>) >>, << >>)

\* a section and a project of five points each
DocSectionProject ==
    Document(<< Job(1, 1, << Group(1, << 2, 2, 2, 2, 1 >>, OneLine, 1) >>) >>,
             << Group(1, << 3, 3, 2, 3, 1 >>, OneLine, 1) >>)

\* a section with long points, long keywords and links, and a short project
DocHeavySection ==
    Document(<< Job(1, 1, << Group(1, << 3, 3, 1, 1, 1 >>, TwoLines, 2) >>) >>,
             << Group(1, << 1, 1, 1 >>, OneLine, 0) >>)

\* two sections and a project whose points all wrap over the same number of lines
DocThreeGroups(lines) ==
    Document(<< Job(1, 1, << Group(1, << lines, lines, lines, lines >>, OneLine, 0),
                             Group(1, << lines, lines, lines >>, OneLine, 0) >>) >>,
             << Group(1, << lines, lines, lines >>, OneLine, 0) >>)

IsPoint(item) == item.itemType \in {"POINT", "PROJECT_POINT"}

\* scores by item index: the points get pointScores in catalog order, the
\* other texts alternate between 1 and 2
Similarities(c, pointScores) ==
    LET items == makeBatch(c)
        rank(idx) == Cardinality({k \in 1..(idx + 1) : IsPoint(items[k])})
    IN [idx \in 0..(Len(items) - 2) |->
            IF IsPoint(items[idx + 1]) THEN pointScores[rank(idx)]
            ELSE 1 + (idx % 2)]

\* documents and scores that take the loop through each of its exits
FixtureCases ==
    { [doc |-> DocTwoJobs,        scores |-> << 1, 2, 1, 2, 1, 2 >>],
      [doc |-> DocTwoShortJobs,   scores |-> << 2, 1, 2, 1, 2, 1 >>],
      [doc |-> DocBare,           scores |-> << 1, 2, 1 >>],
      [doc |-> DocFullLines,      scores |-> << 1, 2, 1 >>],
      [doc |-> DocProjectWithoutKeywords, scores |-> << 1, 2, 1, 2, 1, 2 >>],
      [doc |-> DocProjectWithoutKeywords, scores |-> << 6, 6, 6, 7, 7, 7 >>],
      [doc |-> DocTwoSections,    scores |-> << 1, 1, 1, 2, 1, 2 >>],
      [doc |-> DocTwoSections,    scores |-> << 1, 1, 1, 0, 0, 2 >>],
      [doc |-> DocSectionProject, scores |-> << 1, 1, 1, 2, 1, 2, 1, 2, 2, 1 >>],
      [doc |-> DocHeavySection,   scores |-> << 4, 4, 1, 1, 1, 2, 2, 2 >>] }

\* three groups, every line count and every score per group within the bounds
UniformCases ==
    { [doc |-> DocThreeGroups(lines),
       scores |-> << a, a, a, a, b, b, b, c, c, c >>] :
         lines \in 1..MaxLines, a \in 1..MaxScore, b \in 1..MaxScore, c \in 1..MaxScore }

Cases == FixtureCases \cup UniformCases

\* the required lines leave between 0 and MaxCapacity units for the points,
\* or less than the reserves, or nothing (the required lines overflow the
\* page), or the whole page less the reserves
RequiredHeights ==
    {maxHeight - skillReserve - courseReserve - k : k \in 0..MaxCapacity}
    \cup {maxHeight - skillReserve, maxHeight, maxHeight + 1}
    \cup {0}

\* the locals of rank and prunePoints before rank runs
MainIdle ==
    /\ processedItems = << >>
    /\ heightRemaining = 0
    /\ allWeights = << >>
    /\ chosen = << >>
    /\ accountedJobs = {} /\ accountedSections = {} /\ accountedProjects = {}
    /\ distinctJobs = {} /\ distinctSections = {} /\ distinctProjects = {}
    /\ curCapacity = 0
    /\ iteration = 0
    /\ netOverheadChange = 0
    /\ exitKind = "none"
    /\ rejectedSections = {} /\ rejectedProjects = {}
    /\ expPoints = << >> /\ projPoints = << >> /\ pointsSpace = 0
    /\ jobs = {} /\ sections = {} /\ projects = {}
    /\ keywords = {} /\ keywordsHeight = 0
    /\ skills = {} /\ skillsHeight = 0
    /\ courses = {} /\ coursesHeight = 0
    /\ filteredContent = << >>

SolverIdle ==
    /\ kValues = << >> /\ kWeights = << >> /\ kCapacity = 0
    /\ kChosen = << >> /\ kPc = "idle"

Init ==
    /\ \E case \in Cases, r \in RequiredHeights :
          /\ content = [case.doc EXCEPT !.required = r]
          /\ similarities = Similarities(case.doc, case.scores)
    /\ pc = "rank"
    /\ MainIdle
    /\ SolverIdle

vars == << mainVars, solverVars >>

Next ==
    \/ RankStart
    \/ PruneIterate
    \/ PruneReturn
    \/ PruneKeywords
    \/ PruneSkills
    \/ PruneCourses
    \/ Filter

Spec == Init /\ [][Next]_vars

(***************************************************************************)
(* The solver on its own: knapsack and prunePoints.iterate applied to      *)
(* bounded lists of values and weights                                     *)
(***************************************************************************)
SeqsOf(S, n) == UNION {[1..k -> S] : k \in 0..n}

SolverValues == (0 - MaxNegative)..MaxValue
SolverWeights == 0..MaxWeight
SolverCapacities == (0 - MaxNegativeCapacity)..MaxCap

SolverInit ==
    /\ kValues \in SeqsOf(SolverValues, MaxItems)
    /\ kWeights \in SeqsOf(SolverWeights, MaxItems)
    /\ kCapacity \in SolverCapacities
    /\ kChosen = << >>
    /\ kPc = "ready"
    /\ content = << >> /\ similarities = << >> /\ pc = "idle"
    /\ MainIdle

\* a call of knapsack that returns
SolveKnapsack ==
    /\ kPc = "ready"
    /\ ~KnapsackExits(kValues, kWeights)
    /\ ~KnapsackRaises(kValues, kWeights, kCapacity)
    /\ kChosen' = knapsack(kValues, kWeights, kCapacity)
    /\ kPc' = "knapsack"
    /\ UNCHANGED << kValues, kWeights, kCapacity, mainVars >>

\* a call of knapsack that ends the run at the length test
SolveKnapsackExits ==
    /\ kPc = "ready"
    /\ KnapsackExits(kValues, kWeights)
    /\ kPc' = "knapsackExited"
    /\ UNCHANGED << kValues, kWeights, kCapacity, kChosen, mainVars >>

\* a call of knapsack that raises
SolveKnapsackRaises ==
    /\ kPc = "ready"
    /\ KnapsackRaises(kValues, kWeights, kCapacity)
    /\ kPc' = "knapsackRaised"
    /\ UNCHANGED << kValues, kWeights, kCapacity, kChosen, mainVars >>

\* a call of iterate that returns
SolveIterate ==
    /\ kPc = "ready"
    /\ ~IterateRaises(kCapacity, kValues, kWeights)
    /\ ~IterateExits(kCapacity, kValues, kWeights)
    /\ kChosen' = iterate(kCapacity, kValues, kWeights)
    /\ kPc' = "iterate"
    /\ UNCHANGED << kValues, kWeights, kCapacity, mainVars >>

\* a call of iterate that raises
SolveIterateRaises ==
    /\ kPc = "ready"
    /\ IterateRaises(kCapacity, kValues, kWeights)
    /\ kPc' = "raised"
    /\ UNCHANGED << kValues, kWeights, kCapacity, kChosen, mainVars >>

\* a call of iterate that ends the run inside knapsack
SolveIterateExits ==
    /\ kPc = "ready"
    /\ IterateExits(kCapacity, kValues, kWeights)
    /\ kPc' = "iterateExited"
    /\ UNCHANGED << kValues, kWeights, kCapacity, kChosen, mainVars >>

SolverNext ==
    \/ SolveKnapsack
    \/ SolveKnapsackExits
    \/ SolveKnapsackRaises
    \/ SolveIterate
    \/ SolveIterateRaises
    \/ SolveIterateExits

SolverSpec == SolverInit /\ [][SolverNext]_vars

(***************************************************************************)
(* Properties of prunePoints and rank                                      *)
(***************************************************************************)
\* prunePoints has returned into rank
Committed == pc \in {"pruneKeywords", "pruneSkills", "pruneCourses", "filter", "done"}

\* number of returned points of a section, of a project
ReturnedOfSection(key) ==
    Cardinality({i \in DOMAIN expPoints : SectionKey(expPoints[i]) = key})

ReturnedOfProject(p) ==
    Cardinality({i \in DOMAIN projPoints : projPoints[i].metadata.projectIndex = p})

\* C1: in the result prunePoints commits, every section and every project of
\* the returned active sets has at least minPointsPerSection returned points.
C1_ActiveGroupsReachMinimum ==
    Committed =>
        /\ \A key \in sections : ReturnedOfSection(key) >= minPointsPerSection
        /\ \A p \in projects : ReturnedOfProject(p) >= minPointsPerSection

\* a committed result that reports a group active with none of its points
C1_ActiveGroupWithoutPoints ==
    /\ Committed
    /\ \/ \E key \in sections : ReturnedOfSection(key) = 0
       \/ \E p \in projects : ReturnedOfProject(p) = 0

\* C2: a section or project rejected in some iteration for having too few
\* selected points is active in no later iteration of the run, nor in the result.
C2_RejectedGroupsStayOut ==
    /\ distinctSections \cap rejectedSections = {}
    /\ distinctProjects \cap rejectedProjects = {}
    /\ Committed =>
          /\ sections \cap rejectedSections = {}
          /\ projects \cap rejectedProjects = {}
          /\ \A key \in rejectedSections : ReturnedOfSection(key) = 0
          /\ \A p \in rejectedProjects : ReturnedOfProject(p) = 0

\* a rejected group is back with a full selection in the committed result
C2_RejectedGroupReturned ==
    /\ Committed
    /\ \/ \E key \in rejectedSections : ReturnedOfSection(key) >= minPointsPerSection
       \/ \E p \in rejectedProjects : ReturnedOfProject(p) >= minPointsPerSection

\* C3: the loop of prunePoints terminates after at most maxIterations solves:
\* every step taken inside the loop is one solve and raises iteration by one,
\* iteration never passes maxIterations, inside the loop the loop condition
\* holds (the next step can be taken), and it is left by one of its four exits.
C3_LoopTerminates ==
    /\ [](iteration <= maxIterations)
    /\ [](pc = "prunePoints" => WhileCondition(iteration))
    /\ [](pc = "pruneReturn" =>
            /\ exitKind \in {"zero", "tolerance", "collapse", "cap"}
            /\ iteration \in 1..maxIterations)
    /\ [][pc = "prunePoints" =>
            /\ iteration' = iteration + 1
            /\ pc' \in {"prunePoints", "pruneReturn"}]_vars

\* the loop left by the iteration cap, after maxIterations solves
C3_LeftByTheCap ==
    pc = "pruneReturn" /\ exitKind = "cap" /\ iteration = maxIterations

\* C4: when the loop exits as converged (net change 0 or within tolerance),
\* one more iteration from the final capacity, weights and accounted sets gives
\* the committed active sets again, with a net overhead change of zero.
C4_ConvergedIsStable ==
    (pc = "pruneReturn" /\ exitKind \in {"zero", "tolerance"}) =>
        LET it == Iteration(content, processedItems, similarities, curCapacity,
                            allWeights, accountedJobs, accountedSections,
                            accountedProjects)
        IN /\ it.distinctJobs = accountedJobs
           /\ it.distinctSections = accountedSections
           /\ it.distinctProjects = accountedProjects
           /\ it.netOverheadChange = 0

\* a converged exit whose following iteration would change the overhead
C4_ConvergedYetMoving ==
    /\ pc = "pruneReturn"
    /\ exitKind \in {"zero", "tolerance"}
    /\ Iteration(content, processedItems, similarities, curCapacity, allWeights,
                 accountedJobs, accountedSections, accountedProjects).netOverheadChange # 0

\* C5: heightRemaining is never negative after a stage of rank, and at the end
\* of rank the committed space (required lines, points and their headers,
\* keyword lines, skills, courses) is at most maxHeight.
C5_BudgetNeverNegative ==
    /\ Committed => heightRemaining >= 0
    /\ pc = "done" =>
          content.required + pointsSpace + keywordsHeight + skillsHeight
              + coursesHeight <= maxHeight

\* prunePoints alone reports more used space than the capacity it was given
C5_PointsOverBudget ==
    pc = "pruneKeywords" /\ heightRemaining < 0

\* C6: when the capacity collapses in any iteration, prunePoints returns no
\* point, reports no job, section or project active, and reports used space 0.
C6_CollapseCommitsNothing ==
    (Committed /\ exitKind = "collapse") =>
        /\ expPoints = << >> /\ projPoints = << >>
        /\ jobs = {} /\ sections = {} /\ projects = {}
        /\ pointsSpace = 0

\* a collapse in a later iteration keeps the sets accounted before it
C6_CollapseKeepsAccounted ==
    /\ Committed /\ exitKind = "collapse" /\ iteration > 1
    /\ expPoints = << >> /\ projPoints = << >>
    /\ jobs \cup projects # {}
    /\ pointsSpace > 0

\* C10: the document filter returns holds no job, section or project outside
\* the active sets, and none left empty: every job has a section, every
\* section and every project has a point.
C10_FilterEmitsActiveNonEmpty ==
    pc = "done" =>
        /\ \A job \in Range(filteredContent.jobs) :
              /\ job.from \in jobs
              /\ Len(job.sections) >= 1
              /\ \A section \in Range(job.sections) :
                    /\ section.from \in sections
                    /\ Len(section.points) >= 1
        /\ \A project \in Range(filteredContent.projects) :
              /\ project.from \in projects
              /\ Len(project.points) >= 1

\* the filtered document holds a section or a project without points
C10_EmptyGroupEmitted ==
    /\ pc = "done"
    /\ \/ \E job \in Range(filteredContent.jobs) :
             \E section \in Range(job.sections) : Len(section.points) = 0
       \/ \E project \in Range(filteredContent.projects) : Len(project.points) = 0

\* a sequence of integers is strictly increasing
Increasing(q) == \A i, j \in DOMAIN q : i < j => q[i] < q[j]

\* the original indices of the emitted jobs, sections of a job, projects
FromOf(q) == [k \in DOMAIN q |-> q[k].from]

SectionFromOf(q) == [k \in DOMAIN q |-> q[k].from[2]]

\* C11: the document filter returns lists jobs, the sections of each job and
\* the projects in increasing original index, and the skills, the courses and
\* the points and keywords of each group in increasing original position, each
\* emitted element being the one of the source at that position.
C11_FilterPreservesOrder ==
    pc = "done" =>
        /\ Increasing(filteredContent.skillsFrom)
        /\ filteredContent.skills = Pick(content.skills, filteredContent.skillsFrom)
        /\ Increasing(filteredContent.coursesFrom)
        /\ filteredContent.courses = Pick(content.courses, filteredContent.coursesFrom)
        /\ Increasing(FromOf(filteredContent.jobs))
        /\ Increasing(FromOf(filteredContent.projects))
        /\ \A job \in Range(filteredContent.jobs) :
              /\ Increasing(SectionFromOf(job.sections))
              /\ \A section \in Range(job.sections) :
                    LET original ==
                          content.jobs[section.from[1] + 1].sections[section.from[2] + 1]
                    IN /\ section.from[1] = job.from
                       /\ Increasing(section.pointsFrom)
                       /\ Increasing(section.keywordsFrom)
                       /\ section.points = Pick(original.points, section.pointsFrom)
                       /\ section.keywords = Pick(original.keywords, section.keywordsFrom)
        /\ \A project \in Range(filteredContent.projects) :
              LET original == content.projects[project.from + 1]
              IN /\ Increasing(project.pointsFrom)
                 /\ Increasing(project.keywordsFrom)
                 /\ project.points = Pick(original.points, project.pointsFrom)
                 /\ project.keywords = Pick(original.keywords, project.keywordsFrom)

\* a filtered document with two skills, two courses and two jobs whose
\* sections hold several points and keywords each
C11_SeveralOfEachKept ==
    /\ pc = "done"
    /\ Len(filteredContent.skills) >= 2
    /\ Len(filteredContent.courses) >= 2
    /\ Len(filteredContent.jobs) >= 2
    /\ \A job \in Range(filteredContent.jobs) :
          \A section \in Range(job.sections) :
              Len(section.points) >= 2 /\ Len(section.keywords) >= 2

\* the capacity rank hands to prunePoints
HandedCapacity == getRequiredLineWeights(content) - skillReserve - courseReserve

\* C12: the skill and course reserves are off heightRemaining while prunePoints
\* and pruneKeywords run, they are refunded after pruneKeywords only, and when
\* pruneSkills starts heightRemaining is at least skillReserve + courseReserve.
C12_ReservesGuaranteed ==
    /\ pc \in {"prunePoints", "pruneReturn"} => heightRemaining = HandedCapacity
    /\ pc = "pruneKeywords" => heightRemaining = HandedCapacity - pointsSpace
    /\ pc = "pruneSkills" => heightRemaining >= skillReserve + courseReserve

\* pruneSkills starts with less than the reserves left
C12_SkillsStartBelowReserve ==
    pc = "pruneSkills" /\ heightRemaining < skillReserve + courseReserve

\* the locals of prunePoints and the results of every stage, untouched
NothingDone ==
    /\ processedItems = << >> /\ allWeights = << >> /\ chosen = << >>
    /\ iteration = 0 /\ exitKind = "none"
    /\ expPoints = << >> /\ projPoints = << >> /\ pointsSpace = 0
    /\ jobs = {} /\ sections = {} /\ projects = {}
    /\ keywords = {} /\ skills = {} /\ courses = {}
    /\ filteredContent = << >>

\* C13: when the height left after the required content and the reserves is
\* <= 0, rank aborts: the run goes from rank to the abort and takes no further
\* step, no catalog is built, no stage runs, no selection is produced; and a
\* run aborts in that case only.
C13_AbortBeforeAnyWork ==
    /\ [](pc = "aborted" => (HandedCapacity <= 0 /\ NothingDone))
    /\ []((pc # "idle" /\ HandedCapacity <= 0) => pc \in {"rank", "aborted"})
    /\ [][pc # "aborted"]_vars

\* an aborted run whose required lines leave less than the reserves
C13_AbortedBelowZero == pc = "aborted" /\ HandedCapacity < 0 /\ heightRemaining < 0

\* the active sections and projects that have a keyword in the catalog
SectionsWithKeywords ==
    {key \in sections : SectionKeywords(processedItems, key[1], key[2]) # << >>}

ProjectsWithKeywords ==
    {p \in projects : ProjectKeywords(processedItems, p) # << >>}

\* C16: a catalog without skills gives pruneSkills no skill and height 0, one
\* without courses gives pruneCourses no course and height 0, one without
\* keywords gives pruneKeywords no keyword and height 0; and an active section
\* or project without keywords adds no keyword and no height to what
\* pruneKeywords returns for the active groups that have keywords.
C16_EmptyCandidatesCostNothing ==
    /\ (pc \in {"pruneCourses", "filter", "done"}
           /\ ItemsOfType(processedItems, "SKILL") = << >>) =>
          (skills = {} /\ skillsHeight = 0)
    /\ (pc \in {"filter", "done"} /\ ItemsOfType(processedItems, "COURSE") = << >>) =>
          (courses = {} /\ coursesHeight = 0)
    /\ pc \in {"pruneSkills", "pruneCourses", "filter", "done"} =>
          /\ ItemsOfType(processedItems, "KEYWORD") = << >> =>
                (keywords = {} /\ keywordsHeight = 0)
          /\ LET r == pruneKeywords(content, processedItems, similarities,
                                    SectionsWithKeywords, ProjectsWithKeywords)
             IN keywords = r.keepers /\ keywordsHeight = r.height

\* a finished run on a catalog without skills, courses and keywords, whose
\* section is active
C16_BareCatalogFinished ==
    /\ pc = "done"
    /\ ItemsOfType(processedItems, "SKILL") = << >>
    /\ ItemsOfType(processedItems, "COURSE") = << >>
    /\ ItemsOfType(processedItems, "KEYWORD") = << >>
    /\ sections # {} /\ expPoints # << >>

\* a finished run with an active project that has no keyword next to an
\* active section that has keywords
C16_ActiveProjectWithoutKeywords ==
    /\ pc = "done"
    /\ projects \ ProjectsWithKeywords # {}
    /\ SectionsWithKeywords # {}
    /\ keywordsHeight > 0

\* the catalog has been built
CatalogBuilt == pc \in {"prunePoints", "pruneReturn"} \/ Committed

\* C17: makeBatch returns two lists of equal length; the item at every
\* position carries that position as its index and the string of batchIn at
\* that position as its text; exactly one item is the JOB_POSTING, it is the
\* last and has no metadata; every other item has its score at its index.
C17_CatalogAligned ==
    CatalogBuilt =>
        LET texts == batchIn(content)
            n == Len(processedItems)
        IN /\ Len(texts) = n
           /\ \A i \in 1..n :
                 /\ processedItems[i].index = i - 1
                 /\ processedItems[i].text = texts[i]
           /\ Cardinality({i \in 1..n : processedItems[i].itemType = "JOB_POSTING"}) = 1
           /\ processedItems[n].itemType = "JOB_POSTING"
           /\ processedItems[n].metadata = << >>
           /\ \A i \in 1..(n - 1) : processedItems[i].index \in DOMAIN similarities

\* a catalog with skills, points, keywords, courses, project points and the
\* job posting, the project's items coming after the courses
C17_CatalogOfEveryType ==
    /\ CatalogBuilt
    /\ \A t \in {"SKILL", "POINT", "KEYWORD", "COURSE", "PROJECT_POINT", "JOB_POSTING"} :
          ItemsOfType(processedItems, t) # << >>
    /\ \E i \in DOMAIN processedItems :
          /\ processedItems[i].itemType = "KEYWORD"
          /\ "projectIndex" \in DOMAIN processedItems[i].metadata

\* the points whose weight is the sentinel
BlacklistedPoints == {i \in DOMAIN allWeights : allWeights[i] = BLACKLIST_WEIGHT}

\* C18: a point whose weight is BLACKLIST_WEIGHT is not in what the solver
\* selects in any later iteration of the run (the solve about to be made in
\* every state of the loop), nor in the selection the loop ends with, and
\* curCapacity stays below BLACKLIST_WEIGHT; on the fast path, which a
\* blacklisted point can only be on when every weight is the sentinel, the
\* solver selects nothing at the capacity of the run.
C18_SentinelNeverSelected ==
    /\ curCapacity < BLACKLIST_WEIGHT
    /\ pc = "prunePoints" =>
          LET values == PointValues(processedItems, similarities)
              sel == iterate(curCapacity, values, allWeights)
              allSentinel == [i \in DOMAIN allWeights |-> BLACKLIST_WEIGHT]
              fast == iterate(curCapacity, values, allSentinel)
          IN /\ \A i \in BlacklistedPoints : ~sel[i]
             /\ \A i \in DOMAIN fast : ~fast[i]
    /\ (pc = "pruneReturn" \/ Committed) => \A i \in BlacklistedPoints : ~chosen[i]

\* the loop is about to solve again with a blacklisted point and room for it
\* by its own height
C18_SolveWithBlacklistedPoint ==
    /\ pc = "prunePoints"
    /\ \E i \in BlacklistedPoints :
          PointWeights(processedItems)[i] <= curCapacity
    /\ ~AllWeightsEqual(allWeights)

\* the loop is about to solve with a blacklisted point and more than half
\* the page as capacity
C18_BlacklistedAtLargeCapacity ==
    /\ pc = "prunePoints"
    /\ BlacklistedPoints # {}
    /\ 2 * curCapacity > maxHeight

\* the parents of the returned points
ParentSections == {SectionKey(expPoints[i]) : i \in DOMAIN expPoints}

ParentProjects == {projPoints[i].metadata.projectIndex : i \in DOMAIN projPoints}

\* C19: on every exit of prunePoints the returned active sections are exactly
\* the parents of the returned experience points, the returned active projects
\* exactly the parents of the returned project points, and the returned
\* active jobs the jobs of the active sections.
C19_ActiveSetsMatchSelection ==
    Committed =>
        /\ sections = ParentSections
        /\ projects = ParentProjects
        /\ jobs = {key[1] : key \in sections}

\* a converged exit (net change 0) that returns the points of one group and
\* reports another group active
C19_ConvergedOnOtherGroup ==
    /\ Committed /\ exitKind = "zero"
    /\ \/ sections # ParentSections /\ ParentSections # {}
       \/ projects # ParentProjects /\ ParentProjects # {}

\* the overhead of the accounted jobs, sections and projects, every section
\* under the first-in-job flag it has among the accounted sections
AccountedOverhead ==
      JobsOverhead(content, accountedJobs)
    + SectionsOverhead(content, accountedSections, accountedSections)
    + ProjectsOverhead(content, accountedProjects)

\* an iteration has ended with an update of the accounted sets
AccountedUpdated ==
    \/ pc = "prunePoints" /\ iteration >= 1
    \/ pc = "pruneReturn" /\ exitKind \in {"tolerance", "cap"}

\* C20: at the end of every iteration that updates the accounted sets,
\* curCapacity is the initial heightRemaining less the overhead of the
\* accounted jobs, sections and projects, and curCapacity never exceeds the
\* initial heightRemaining.
C20_CapacityAccounted ==
    /\ AccountedUpdated => curCapacity = heightRemaining - AccountedOverhead
    /\ pc \in {"prunePoints", "pruneReturn"} => curCapacity <= heightRemaining

\* after an update curCapacity differs from the initial heightRemaining less
\* the overhead of the accounted groups
C20_CapacityDrifted ==
    /\ AccountedUpdated
    /\ curCapacity # heightRemaining - AccountedOverhead

\* the sections and the projects that have a point in the catalog
CatalogSections ==
    {SectionKey(processedItems[i]) :
        i \in {k \in DOMAIN processedItems : processedItems[k].itemType = "POINT"}}

CatalogProjects ==
    {processedItems[i].metadata.projectIndex :
        i \in {k \in DOMAIN processedItems : processedItems[k].itemType = "PROJECT_POINT"}}

\* C21: in the points prunePoints returns, on every exit, each section and
\* each project has either no point or at least minPointsPerSection points.
C21_NoGroupBelowMinimum ==
    Committed =>
        /\ \A key \in CatalogSections :
              ReturnedOfSection(key) = 0 \/ ReturnedOfSection(key) >= minPointsPerSection
        /\ \A p \in CatalogProjects :
              ReturnedOfProject(p) = 0 \/ ReturnedOfProject(p) >= minPointsPerSection

\* a committed result that returns the points of one group and none of a
\* group whose selection fell short in the last iteration
C21_ShortGroupDropped ==
    /\ Committed
    /\ expPoints \o projPoints # << >>
    /\ LET pts == PointItems(processedItems)
       IN \E i \in DOMAIN pts :
             /\ allWeights[i] = BLACKLIST_WEIGHT
             /\ pts[i].lineHeight <= curCapacity
             /\ ~chosen[i]

\* pruneKeywords has returned into rank
KeywordsPruned == pc \in {"pruneSkills", "pruneCourses", "filter", "done"}

\* the kept keywords of a section, of a project
KeptOfSection(key) ==
    {k \in keywords : /\ "jobIndex" \in DOMAIN k.metadata
                      /\ k.metadata.jobIndex = key[1]
                      /\ k.metadata.sectionIndex = key[2]}

KeptOfProject(p) ==
    {k \in keywords : /\ "projectIndex" \in DOMAIN k.metadata
                      /\ k.metadata.projectIndex = p}

\* width of a set of items joined by the separator after a header label
JoinedWidthOf(header, kept) ==
    header + SumOver(kept, [k \in kept |-> k.lineWidth])
    + (IF kept = {} THEN 0 ELSE (Cardinality(kept) - 1) * separatorWeight)

\* C23: for each active section and each active project, the kept keywords,
\* joined by the separator after the header label, are at most
\* maxWidth * keywordLinesPerSection wide.
C23_KeywordsFitTheirLines ==
    KeywordsPruned =>
        /\ \A key \in sections :
              JoinedWidthOf(keywordsHeaderWidth, KeptOfSection(key))
                  <= maxWidth * KEYWORD_LINES_PER_SECTION
        /\ \A p \in projects :
              JoinedWidthOf(keywordsHeaderWidth, KeptOfProject(p))
                  <= maxWidth * KEYWORD_LINES_PER_SECTION

\* an active section keeps a keyword and drops another that would not fit
C23_KeywordDropped ==
    /\ KeywordsPruned
    /\ \E key \in sections :
          /\ KeptOfSection(key) # {}
          /\ Cardinality(KeptOfSection(key))
                < Len(SectionKeywords(processedItems, key[1], key[2]))
          /\ JoinedWidth(keywordsHeaderWidth,
                         [i \in 1..Len(SectionKeywords(processedItems, key[1], key[2])) |->
                            SectionKeywords(processedItems, key[1], key[2])[i].lineWidth])
                > maxWidth * KEYWORD_LINES_PER_SECTION

\* pruneSkills, pruneCourses have returned into rank
SkillsPruned == pc \in {"pruneCourses", "filter", "done"}
CoursesPruned == pc \in {"filter", "done"}

\* C24: the height reported by pruneSkills is at most skillsLineCount line
\* heights and the height reported by pruneCourses, label included, at most
\* coursesLineCount line heights, whatever the candidates and their scores.
C24_PrunedWithinReserve ==
    /\ SkillsPruned => skillsHeight <= skillReserve
    /\ CoursesPruned => coursesHeight <= courseReserve

\* len(keepers) of pruneKeywords: one append per keyword picked in a group
KeywordsAppended ==
    SumOver(sections, [key \in sections |->
        Cardinality(WidthPass(SectionKeywords(processedItems, key[1], key[2]),
                              similarities, KEYWORD_LINES_PER_SECTION,
                              keywordsHeaderWidth, 0).keepers)])
    + SumOver(projects, [p \in projects |->
        Cardinality(WidthPass(ProjectKeywords(processedItems, p),
                              similarities, KEYWORD_LINES_PER_SECTION,
                              keywordsHeaderWidth, 0).keepers)])

\* C25: every keyword returned by pruneKeywords belongs to a section or a
\* project of the active sets it was given, so none belongs to an inactive
\* group, and no keyword is returned twice.
C25_KeywordsFollowActiveGroups ==
    KeywordsPruned =>
        /\ \A k \in keywords :
              IF "jobIndex" \in DOMAIN k.metadata
              THEN << k.metadata.jobIndex, k.metadata.sectionIndex >> \in sections
              ELSE k.metadata.projectIndex \in projects
        /\ KeywordsAppended = Cardinality(keywords)

\* keywords were kept while a section that has keywords was inactive
C25_InactiveSectionWithKeywords ==
    /\ KeywordsPruned
    /\ keywords # {}
    /\ \E key \in CatalogSections \ sections :
          SectionKeywords(processedItems, key[1], key[2]) # << >>

\* keepersHeight of the current selection (line 426)
ChosenHeight ==
    LET pts == PointItems(processedItems)
    IN KeepersHeight(Keepers(pts, chosen, "POINT", 1))
       + KeepersHeight(Keepers(pts, chosen, "PROJECT_POINT", 1))

\* the loop has ended on a net overhead change within the tolerance
EndedWithinTolerance ==
    pc = "pruneReturn" /\ exitKind \in {"zero", "tolerance"}

\* C26: whenever the net overhead change of an iteration is within the
\* tolerance (|netChange| <= 1) the loop solves no more; the selection of that
\* iteration is committed with the active sets of that same iteration, and
\* the committed points plus their overhead exceed the initial capacity by at
\* most one unit.
C26_ToleranceCommitsItsIteration ==
    /\ (pc = "prunePoints" /\ iteration >= 1) => ~WithinTolerance(netOverheadChange)
    /\ (pc = "pruneReturn" /\ WithinTolerance(netOverheadChange)) => EndedWithinTolerance
    /\ EndedWithinTolerance =>
          /\ accountedJobs = distinctJobs
          /\ accountedSections = distinctSections
          /\ accountedProjects = distinctProjects
          /\ ChosenHeight + AccountedOverhead <= heightRemaining + 1

\* the overhead the loop charges against the capacity for the returned active
\* sets: headers, keyword line estimates and link line estimates
ChargedOverhead ==
      JobsOverhead(content, jobs)
    + SectionsOverhead(content, sections, sections)
    + ProjectsOverhead(content, projects)

\* C27: the used space prunePoints returns is the height of the returned
\* experience and project points plus the overhead of the returned active
\* jobs, sections and projects as the loop charged it: headers plus keyword
\* and link line estimates.
C27_UsedSpaceIsPointsPlusCharged ==
    Committed =>
        pointsSpace = KeepersHeight(expPoints) + KeepersHeight(projPoints)
                      + ChargedOverhead

\* what prunePoints writes for the caller to read: it has no print and no
\* logging statement (lines 253-443)
prunePointsOutput == << >>

\* the components of the tuple prunePoints returns (line 443)
prunePointsReturns ==
    {"expKeepers", "projKeepers", "usedSpace",
     "accountedJobs", "accountedSections", "accountedProjects"}

\* the components that carry the selection, its space and its active sets
SelectionComponents ==
    {"expKeepers", "projKeepers", "usedSpace",
     "accountedJobs", "accountedSections", "accountedProjects"}

\* C28: when the loop runs maxIterations iterations without converging,
\* prunePoints exits without error and commits the selection of the last
\* iteration, and the caller can tell this exit from a converged one: by a
\* line prunePoints wrote, or by a component of the returned tuple besides
\* the selection.
C28_CapExitObservable ==
    (Committed /\ exitKind = "cap") =>
        /\ iteration = maxIterations
        /\ expPoints = Keepers(PointItems(processedItems), chosen, "POINT", 1)
        /\ projPoints = Keepers(PointItems(processedItems), chosen, "PROJECT_POINT", 1)
        /\ \/ prunePointsOutput # << >>
           \/ prunePointsReturns \ SelectionComponents # {}

\* the cap exit commits the selection of the tenth iteration without error
C28_CapExitCommitsLastSelection ==
    (Committed /\ exitKind = "cap") =>
        /\ iteration = maxIterations
        /\ expPoints = Keepers(PointItems(processedItems), chosen, "POINT", 1)
        /\ projPoints = Keepers(PointItems(processedItems), chosen, "PROJECT_POINT", 1)

\* C29: filter leaves the document it was given unchanged, and a second call
\* with the same arguments returns what the first call returned.
C29_FilterLeavesDocument ==
    [][pc = "filter" =>
          /\ content' = content
          /\ filter(content', skills, courses, Range(expPoints), Range(projPoints),
                    keywords, jobs, sections, projects) = filteredContent']_vars

\* filter has returned fewer skills, fewer courses and fewer points than the
\* document holds
C29_FilterTrimmed ==
    /\ pc = "done"
    /\ Len(filteredContent.skills) < Len(content.skills)
    /\ Len(filteredContent.courses) < Len(content.courses)
    /\ filteredContent.jobs # << >>
    /\ \E j \in DOMAIN filteredContent.jobs :
          Len(filteredContent.jobs[j].sections)
              < Len(content.jobs[filteredContent.jobs[j].from + 1].sections)

\* the point of catalog position i among the points, experience points first
PointAt(i) == PointItems(processedItems)[i]

\* relevance score times projectToExperienceRatio for a project point, the
\* unscaled score for an experience point (both in units of 1 / RatioDen)
WeightedScore(i) ==
    IF PointAt(i).itemType = "PROJECT_POINT"
    THEN (similarities[PointAt(i).index] * RatioNum * RatioDen) \div RatioDen
    ELSE similarities[PointAt(i).index] * RatioDen

\* the picked points that the iteration did not blacklist (lines 320-344)
KeptOf(picked, before, after) ==
    [i \in DOMAIN picked |-> picked[i] /\ after[i] = before[i]]

\* C30: every solve of prunePoints is one knapsack over the experience and
\* the project points together, at the one current capacity; the value of a
\* project point is its score times projectToExperienceRatio, the value of an
\* experience point its unscaled score, and the weight of a point is its line
\* height (or the sentinel once it is blacklisted).
C30_OneKnapsackWithProjectWeighting ==
    /\ [](pc \in {"prunePoints", "pruneReturn"} =>
            /\ Len(allWeights) = Len(PointItems(processedItems))
            /\ \A i \in DOMAIN allWeights :
                  allWeights[i] \in {PointAt(i).lineHeight, BLACKLIST_WEIGHT}
            /\ iteration = 0 =>
                  \A i \in DOMAIN allWeights : allWeights[i] = PointAt(i).lineHeight)
    /\ [][(pc = "prunePoints" /\ iteration' = iteration + 1 /\ exitKind' # "collapse") =>
            chosen' = KeptOf(iterate(curCapacity,
                                     [i \in DOMAIN allWeights |-> WeightedScore(i)],
                                     allWeights), allWeights, allWeights')]_vars

\* a solve took an experience point and left out a project point of a higher
\* score that weighs the same
C30_ProjectPointOutweighed ==
    /\ pc \in {"prunePoints", "pruneReturn"}
    /\ iteration = 1
    /\ \E i, j \in DOMAIN chosen :
          /\ PointAt(i).itemType = "POINT" /\ PointAt(j).itemType = "PROJECT_POINT"
          /\ chosen[i] /\ ~chosen[j]
          /\ allWeights[j] = allWeights[i]
          /\ similarities[PointAt(j).index] > similarities[PointAt(i).index]

(***************************************************************************)
(* Properties of the solver                                                *)
(***************************************************************************)
TotalValue(sel) == SelTotal(sel, kValues)

\* the best total value of a subset that fits, by enumeration
BestValue ==
    LET fits == {S \in SUBSET (DOMAIN kValues) :
                    SumOver(S, kWeights) <= kCapacity}
        best == CHOOSE S \in fits : \A T \in fits :
                    SumOver(T, kValues) <= SumOver(S, kValues)
    IN SumOver(best, kValues)

\* C7: for non-negative weights and a capacity > 0, the subset knapsack
\* returns has the greatest total value of all subsets that fit the capacity.
C7_KnapsackIsOptimal ==
    (kPc = "knapsack" /\ kCapacity > 0) => TotalValue(kChosen) = BestValue

\* C8: when all weights are equal and capacity > 0, the items the fast path
\* of iterate chooses have the same total value as the items knapsack chooses.
C8_FastPathMatchesKnapsack ==
    (/\ kPc = "iterate" /\ kCapacity > 0 /\ AllWeightsEqual(kWeights)
     /\ Len(kValues) = Len(kWeights)) =>
        TotalValue(kChosen) = TotalValue(knapsack(kValues, kWeights, kCapacity))

\* C9: for fixed values and weights, the total value iterate returns for a
\* capacity is not less than the one it returns for any smaller capacity.
C9_MoreCapacityNeverLess ==
    (kPc = "iterate" /\ Len(kValues) = Len(kWeights)) =>
        \A c1 \in SolverCapacities :
            c1 <= kCapacity =>
                TotalValue(iterate(c1, kValues, kWeights)) <= TotalValue(kChosen)

\* C14: for every capacity <= 0 a call of the solver returns, raising nothing
\* and ending nothing, a selection as long as the values with every entry false.
C14_NoCapacitySelectsNothing ==
    /\ kCapacity <= 0 =>
          /\ ~IterateRaises(kCapacity, kValues, kWeights)
          /\ ~IterateExits(kCapacity, kValues, kWeights)
          /\ kPc \notin {"raised", "iterateExited"}
    /\ (kPc = "iterate" /\ kCapacity <= 0) =>
          /\ Len(kChosen) = Len(kValues)
          /\ \A i \in DOMAIN kChosen : ~kChosen[i]

\* the solver has returned for a negative capacity and several items of
\* equal weight
C14_ReturnedForNegativeCapacity ==
    /\ kPc = "iterate" /\ kCapacity < 0
    /\ Len(kValues) >= 2 /\ Len(kWeights) = Len(kValues)
    /\ AllWeightsEqual(kWeights) /\ kWeights[1] > 0

\* C15: a call of knapsack with len(values) # len(weights) ends the run at the
\* length test: it neither returns a selection nor gets as far as the table,
\* and nothing runs after it.
C15_LengthMismatchEndsRun ==
    /\ [](Len(kValues) # Len(kWeights) => kPc \notin {"knapsack", "knapsackRaised"})
    /\ [](kPc = "knapsackExited" => (Len(kValues) # Len(kWeights) /\ kChosen = << >>))
    /\ [][kPc # "knapsackExited"]_vars
    /\ [][(kPc = "ready" /\ kPc' \in {"knapsack", "knapsackRaised", "knapsackExited"}
           /\ Len(kValues) # Len(kWeights)) => kPc' = "knapsackExited"]_vars

\* knapsack has ended the run for more weights than values and a capacity > 0
C15_ExitedOnExtraWeights ==
    /\ kPc = "knapsackExited"
    /\ Len(kValues) >= 1 /\ Len(kWeights) > Len(kValues) /\ kCapacity > 0

\* total weight of a selection
TotalWeight(sel) == SelTotal(sel, kWeights)

\* C22: for a capacity > 0 and at least one item (and as many weights as
\* values), the items iterate selects, on the fast path or by knapsack, have a
\* total weight <= capacity.
C22_SelectionFits ==
    (/\ kPc = "iterate" /\ kCapacity > 0
     /\ Len(kValues) >= 1 /\ Len(kValues) = Len(kWeights)) =>
        TotalWeight(kChosen) <= kCapacity

\* knapsack, called by iterate for unequal weights that do not all fit, has
\* selected an item
C22_KnapsackLeftOneOut ==
    /\ kPc = "iterate" /\ kCapacity > 0
    /\ Len(kValues) = Len(kWeights)
    /\ ~AllWeightsEqual(kWeights)
    /\ SeqSum(kWeights) > kCapacity
    /\ \E i \in DOMAIN kChosen : kChosen[i]

====
